---- MODULE Spec2Model ----
(***************************************************************************)
(* Model of the OzMirror configuration service                             *)
(* (services/config/app): the layout document with its profiles, the       *)
(* module registry, settings and themes, the bootstrap seeding and the     *)
(* request handlers that read and write them.                              *)
(*                                                                         *)
(* Every request runs in its own SQLAlchemy session (dependencies.get_db). *)
(* A handler is split at its database accesses: the first SELECT of a      *)
(* session loads the row into the session (MySQL REPEATABLE READ snapshot  *)
(* and the session's identity map both keep later reads of the same        *)
(* request on that row), and db.commit() flushes an UPDATE of the columns  *)
(* whose value differs from the loaded one.  Steps of different requests   *)
(* interleave.                                                             *)
(*                                                                         *)
(* Four specifications share the variables and the handlers:               *)
(*   Spec        the layout and module routes of a service that one        *)
(*               process has started (lifespan as one step);               *)
(*   WriteSpec   the write routes of the whole service, those of the       *)
(*               settings and themes and the requests that                 *)
(*               require_api_key turns away included;                      *)
(*   SeededSpec  Spec on a database that was empty at the first start;     *)
(*   BootSpec    processes that start and restart on one database, with    *)
(*               seed_defaults step by step, and the writes that change    *)
(*               what it has seeded.                                       *)
(***************************************************************************)
EXTENDS Integers, Sequences, FiniteSets, TLC

VARIABLES
    api_key,      \* the server secret: os.getenv("API_KEY", "")
    phase,        \* "starting" before lifespan has run, then "serving"
    layout_data,  \* table layout_data: id -> LayoutDataRow
    modules,      \* table modules: id -> ModuleRow
    settings,     \* table settings: id -> SettingsRow
    themes,       \* table themes: id -> ThemeRow
    pc,           \* per worker: position inside its current request
    req,          \* per worker: the request being served (or last served)
    sess,         \* per worker: the row its session has loaded (kept after
                  \* the response as the record of what the request read)
    resp,         \* per worker: the response of the last finished request
    nreq          \* number of requests accepted so far

vars == <<api_key, phase, layout_data, modules, settings, themes, pc, req, sess, resp, nreq>>

store == <<layout_data, modules, settings, themes>>

(***************************************************************************)
(* Bounds and input domains                                                *)
(***************************************************************************)
\* number of requests the service accepts in one behaviour
MaxRequests == 2

Procs == {"w1", "w2"}

ProfileNames == {"default", "night", "x"}

InstanceIds == {"clock_01", "w_02"}

ModuleIds == {"clock", "weather"}

None == "None"

\* values of the API_KEY environment variable: unset or empty, or a secret
ServerKeys == {"", "secret"}

\* values of the X-API-Key header: absent, empty, the secret, another key
Keys == {None, "", "secret", "wrong"}

\* Optional[T] results of the database functions: None or a value
Nothing == {}

Just(v) == {v}

(***************************************************************************)
(* Opaque config mappings (Dict[str, Any])                                 *)
(***************************************************************************)
EmptyConfig == <<>>

SeedClockConfig == [format |-> "HH:mm:ss", timezone |-> "UTC", showDate |-> TRUE]

ShortClockConfig == [format |-> "HH:mm"]

WeatherConfig == [units |-> "metric"]

Configs == {EmptyConfig, ShortClockConfig}

(***************************************************************************)
(* pydantic models: validation of a JSON value and model_dump              *)
(***************************************************************************)
GridOptionalFields == {"minW", "minH", "maxW", "maxH"}

Opt(raw, f) == IF f \in DOMAIN raw THEN raw[f] ELSE None

\* GridItem(**raw): the optional bounds default to None
GridItem(raw) ==
    [i |-> raw.i, x |-> raw.x, y |-> raw.y, w |-> raw.w, h |-> raw.h,
     minW |-> Opt(raw, "minW"), minH |-> Opt(raw, "minH"),
     maxW |-> Opt(raw, "maxW"), maxH |-> Opt(raw, "maxH")]

\* ModuleInstanceConfig(**raw): config defaults to the empty dict
ModuleInstanceConfig(raw) ==
    [moduleId |-> raw.moduleId,
     config |-> IF "config" \in DOMAIN raw THEN raw.config ELSE EmptyConfig]

\* LayoutProfile(**raw)
LayoutProfile(raw) ==
    [grid |-> [k \in DOMAIN raw.grid |-> GridItem(raw.grid[k])],
     moduleConfigs |-> [k \in DOMAIN raw.moduleConfigs |->
                            ModuleInstanceConfig(raw.moduleConfigs[k])]]

\* mutant: the dump does not descend into the config dicts
model_dump_shallow(profile) ==
    [grid |-> [k \in DOMAIN profile.grid |->
                  [f \in {"i", "x", "y", "w", "h"} \cup GridOptionalFields |->
                      profile.grid[k][f]]],
     moduleConfigs |-> [k \in DOMAIN profile.moduleConfigs |->
                           [moduleId |-> profile.moduleConfigs[k].moduleId,
                            config |-> EmptyConfig]]]

\* profile.model_dump(): every field of every nested model, None included
model_dump(profile) ==
    [grid |-> [k \in DOMAIN profile.grid |->
                  [f \in {"i", "x", "y", "w", "h"} \cup GridOptionalFields |->
                      profile.grid[k][f]]],
     moduleConfigs |-> [k \in DOMAIN profile.moduleConfigs |->
                           [moduleId |-> profile.moduleConfigs[k].moduleId,
                            config |-> profile.moduleConfigs[k].config]]]

(***************************************************************************)
(* Built-in seed data                                                      *)
(***************************************************************************)
ThemeVars(bg, surface, accent, text, secondary, border, font) ==
    ("--color-bg" :> bg) @@ ("--color-surface" :> surface) @@
    ("--color-accent" :> accent) @@ ("--color-text" :> text) @@
    ("--color-text-secondary" :> secondary) @@ ("--color-border" :> border) @@
    ("--font-base" :> font)

_BUILTIN_THEMES ==
    <<[id |-> "dark", name |-> "Dark",
       variables |-> ThemeVars("#0d0d0d", "#1a1a1a", "#4fc3f7", "#e0e0e0",
                               "#9e9e9e", "#2a2a2a", "'Inter', sans-serif")],
      [id |-> "light", name |-> "Light",
       variables |-> ThemeVars("#f5f5f5", "#ffffff", "#0288d1", "#212121",
                               "#616161", "#e0e0e0", "'Inter', sans-serif")],
      [id |-> "amoled", name |-> "AMOLED",
       variables |-> ThemeVars("#000000", "#0a0a0a", "#00e5ff", "#e0e8f0",
                               "#78909c", "#111111", "'Space Mono', monospace")]>>

_DEFAULT_LAYOUT_PROFILES ==
    [default |->
        [grid |-> <<[i |-> "clock_01", x |-> 0, y |-> 0, w |-> 4, h |-> 3]>>,
         moduleConfigs |->
            [clock_01 |-> [moduleId |-> "clock", config |-> SeedClockConfig]]]]

DefaultSettingsRow ==
    [theme |-> "dark", kiosk |-> FALSE, cursor_timeout |-> 3000,
     font_scale |-> "1.0", auto_start |-> FALSE]

DefaultLayoutRow ==
    [active_profile |-> "default", profiles |-> _DEFAULT_LAYOUT_PROFILES]

EmptyTable == <<>>

\* a table with the single row r under primary key k
OneRow(k, r) == (k :> r)

\* dict/table with key k set to v
Put(f, k, v) == (k :> v) @@ f

\* dict/table without key k
Del(f, k) == [j \in DOMAIN f \ {k} |-> f[j]]

(***************************************************************************)
(* seed_defaults: insert the default rows into the tables that are empty   *)
(***************************************************************************)
seed_settings(tbl) ==
    IF Cardinality(DOMAIN tbl) = 0 THEN OneRow(1, DefaultSettingsRow) ELSE tbl

seed_layout(tbl) ==
    IF Cardinality(DOMAIN tbl) = 0 THEN OneRow(1, DefaultLayoutRow) ELSE tbl

seed_themes(tbl) ==
    IF Cardinality(DOMAIN tbl) = 0
    THEN [id \in {_BUILTIN_THEMES[k].id : k \in DOMAIN _BUILTIN_THEMES} |->
             LET t == CHOOSE t \in {_BUILTIN_THEMES[k] : k \in DOMAIN _BUILTIN_THEMES} :
                          t.id = id
             IN  [name |-> t.name, variables |-> t.variables]]
    ELSE tbl

(***************************************************************************)
(* Layout CRUD of database.py, as functions of the row the session holds   *)
(***************************************************************************)
\* get_layout: the LayoutData built from the loaded row
get_layout(row) ==
    [activeProfile |-> row.active_profile,
     layouts |-> [n \in DOMAIN row.profiles |-> LayoutProfile(row.profiles[n])]]

\* get_profiles: the keys of the stored profiles
get_profiles(row) == DOMAIN row.profiles

\* mutant: the save merges its profiles into the stored ones
save_layout_merge(tbl, loaded, layout) ==
    LET dumped == [n \in DOMAIN layout.layouts |-> model_dump(layout.layouts[n])]
    IN  OneRow(1,
          [active_profile |-> IF layout.activeProfile # loaded.active_profile
                              THEN layout.activeProfile ELSE tbl[1].active_profile,
           profiles |-> IF dumped # loaded.profiles
                        THEN dumped @@ tbl[1].profiles ELSE tbl[1].profiles])

\* save_layout: assign both columns of the session's row and commit; the
\* flush updates the columns whose new value differs from the loaded one
save_layout(tbl, loaded, layout) ==
    LET dumped == [n \in DOMAIN layout.layouts |-> model_dump(layout.layouts[n])]
    IN  OneRow(1,
          [active_profile |-> IF layout.activeProfile # loaded.active_profile
                              THEN layout.activeProfile
                              ELSE tbl[1].active_profile,
           profiles |-> IF dumped # loaded.profiles
                        THEN dumped
                        ELSE tbl[1].profiles])

\* mutant: the source is always "default", whatever copy_from says
create_profile_from_default(layout, name, copy_from) ==
    [layout EXCEPT !.layouts =
        Put(layout.layouts, name, LayoutProfile(model_dump(layout.layouts["default"])))]

\* mutant: the new profile also becomes the active one
create_profile_activate(layout, name, copy_from) ==
    [activeProfile |-> name,
     layouts |-> Put(layout.layouts, name,
                     LayoutProfile(model_dump(layout.layouts[copy_from])))]

\* create_profile, in memory: layouts[name] = LayoutProfile(**source.model_dump())
create_profile(layout, name, copy_from) ==
    [layout EXCEPT !.layouts =
        Put(layout.layouts, name, LayoutProfile(model_dump(layout.layouts[copy_from])))]

\* mutant: activeProfile is reset whichever profile is deleted
delete_profile_always_reset(layout, name) ==
    [activeProfile |-> "default", layouts |-> Del(layout.layouts, name)]

\* mutant: the active profile is not reset
delete_profile_no_reset(layout, name) ==
    [activeProfile |-> layout.activeProfile,
     layouts |-> Del(layout.layouts, name)]

\* delete_profile, in memory: del layouts[name]; reset activeProfile
delete_profile(layout, name) ==
    [activeProfile |-> IF layout.activeProfile = name THEN "default"
                       ELSE layout.activeProfile,
     layouts |-> Del(layout.layouts, name)]

\* mutant: grid items and config entries without a partner are dropped
upsert_profile_content_pruned(layout, profile_name, profile) ==
    LET placed == {profile.grid[k].i : k \in DOMAIN profile.grid}
        kept == placed \cap DOMAIN profile.moduleConfigs
    IN  [layout EXCEPT !.layouts =
            Put(layout.layouts, profile_name,
                [grid |-> SelectSeq(profile.grid, LAMBDA g : g.i \in kept),
                 moduleConfigs |-> [i \in kept |-> profile.moduleConfigs[i]]])]

\* mutant: the saved profile becomes the active one
upsert_profile_content_activate(layout, profile_name, profile) ==
    [activeProfile |-> profile_name,
     layouts |-> Put(layout.layouts, profile_name, profile)]

\* mutant: the document is replaced by the one profile
upsert_profile_content_alone(layout, profile_name, profile) ==
    [layout EXCEPT !.layouts = OneRow(profile_name, profile)]

\* upsert_profile_content, in memory: layouts[profile_name] = profile
upsert_profile_content(layout, profile_name, profile) ==
    [layout EXCEPT !.layouts = Put(layout.layouts, profile_name, profile)]

(***************************************************************************)
(* Module instance config (lives inside the active layout profile)         *)
(***************************************************************************)
\* ModuleManifest(**raw): the fields of the stored manifest, defaults filled
ModuleManifest(raw) ==
    [id |-> raw.id, name |-> raw.name,
     description |-> IF "description" \in DOMAIN raw THEN raw.description ELSE "",
     version |-> raw.version,
     author |-> IF "author" \in DOMAIN raw THEN raw.author ELSE "",
     icon |-> Opt(raw, "icon"),
     defaultConfig |-> IF "defaultConfig" \in DOMAIN raw
                       THEN raw.defaultConfig ELSE EmptyConfig,
     configSchema |-> Opt(raw, "configSchema"),
     gridConstraints |-> Opt(raw, "gridConstraints")]

\* RegisteredModule(id=row.id, name=row.name, serviceUrl=row.service_url, ...)
RegisteredModule(id, row) ==
    [id |-> id, name |-> row.name, serviceUrl |-> row.service_url,
     manifest |-> ModuleManifest(row.manifest), status |-> row.status]

\* db.query(ModuleRow).filter(ModuleRow.id == module_id).first()
module_row(mods, module_id) ==
    IF module_id \in DOMAIN mods THEN Just(mods[module_id]) ELSE Nothing

\* get_module: the registered module built from its row, or None
get_module(mods, module_id) ==
    IF module_row(mods, module_id) = Nothing
    THEN Nothing
    ELSE Just(RegisteredModule(module_id, mods[module_id]))

\* get_modules: every row as a registered module
get_modules(mods) == {RegisteredModule(id, mods[id]) : id \in DOMAIN mods}

\* mutant: an empty defaultConfig counts as no config ("if mod and default")
get_instance_config_falsy(row, mods, module_id, instance_id) ==
    LET layout == get_layout(row)
        profile == layout.layouts[layout.activeProfile]
    IN  IF instance_id \notin DOMAIN profile.moduleConfigs
        THEN IF /\ module_id \in DOMAIN mods
                /\ mods[module_id].manifest.defaultConfig # EmptyConfig
             THEN Just(mods[module_id].manifest.defaultConfig)
             ELSE Nothing
        ELSE Just(profile.moduleConfigs[instance_id].config)

\* mutant: a saved entry counts only for the module it is stored under
get_instance_config_stored(row, mods, module_id, instance_id) ==
    LET layout == get_layout(row)
        profile == layout.layouts[layout.activeProfile]
    IN  IF \/ instance_id \notin DOMAIN profile.moduleConfigs
           \/ profile.moduleConfigs[instance_id].moduleId # module_id
        THEN IF module_id \in DOMAIN mods
             THEN Just(mods[module_id].manifest.defaultConfig)
             ELSE Nothing
        ELSE Just(profile.moduleConfigs[instance_id].config)

\* get_instance_config: saved config, else manifest defaultConfig, else None
get_instance_config(row, mods, module_id, instance_id) ==
    LET layout == get_layout(row)
    IN  IF layout.activeProfile \notin DOMAIN layout.layouts
        THEN Nothing
        ELSE LET profile == layout.layouts[layout.activeProfile]
             IN  IF instance_id \notin DOMAIN profile.moduleConfigs
                 THEN IF get_module(mods, module_id) # Nothing
                      THEN Just(mods[module_id].manifest.defaultConfig)
                      ELSE Nothing
                 ELSE Just(profile.moduleConfigs[instance_id].config)

\* mutant: an instance placed on the grid is accepted without a config entry
set_instance_config_missing_grid(layout, instance_id) ==
    \/ layout.activeProfile \notin DOMAIN layout.layouts
    \/ LET profile == layout.layouts[layout.activeProfile]
       IN  /\ instance_id \notin DOMAIN profile.moduleConfigs
           /\ \A k \in DOMAIN profile.grid : profile.grid[k].i # instance_id

\* the test of set_instance_config that makes it return False
set_instance_config_missing(layout, instance_id) ==
    \/ layout.activeProfile \notin DOMAIN layout.layouts
    \/ instance_id \notin DOMAIN layout.layouts[layout.activeProfile].moduleConfigs

\* mutant: the config is set in every profile that holds the instance
set_instance_config_every_profile(layout, instance_id, config) ==
    [layout EXCEPT !.layouts =
        [n \in DOMAIN layout.layouts |->
            IF instance_id \in DOMAIN layout.layouts[n].moduleConfigs
            THEN [layout.layouts[n] EXCEPT
                     !.moduleConfigs[instance_id].config = config]
            ELSE layout.layouts[n]]]

\* set_instance_config, in memory: profile.moduleConfigs[instance_id].config = config
set_instance_config(layout, instance_id, config) ==
    [layout EXCEPT
        !.layouts[layout.activeProfile].moduleConfigs[instance_id].config = config]

(***************************************************************************)
(* Module registry                                                         *)
(***************************************************************************)
\* module.manifest.model_dump()
manifest_dump(manifest) ==
    [id |-> manifest.id, name |-> manifest.name,
     description |-> manifest.description, version |-> manifest.version,
     author |-> manifest.author, icon |-> manifest.icon,
     defaultConfig |-> manifest.defaultConfig,
     configSchema |-> manifest.configSchema,
     gridConstraints |-> manifest.gridConstraints]

\* mutant: an existing row keeps the manifest it was registered with
register_module_keep_manifest(tbl, loaded, module) ==
    LET new == [name |-> module.name, service_url |-> module.serviceUrl,
                manifest |-> manifest_dump(module.manifest),
                status |-> module.status]
    IN  IF loaded # Nothing
        THEN Put(tbl, module.id, [new EXCEPT !.manifest = tbl[module.id].manifest])
        ELSE Put(tbl, module.id, new)

\* mutant: a registration replaces the registry by its own row
register_module_alone(tbl, loaded, module) ==
    OneRow(module.id,
           [name |-> module.name, service_url |-> module.serviceUrl,
            manifest |-> manifest_dump(module.manifest),
            status |-> module.status])

\* register_module: update the columns of the existing row that differ from
\* the loaded ones, or insert a new row
register_module(tbl, loaded, module) ==
    LET new == [name |-> module.name, service_url |-> module.serviceUrl,
                manifest |-> manifest_dump(module.manifest),
                status |-> module.status]
    IN  IF loaded # Nothing
        THEN LET old == CHOOSE r \in loaded : TRUE
             IN  Put(tbl, module.id,
                     [c \in DOMAIN new |->
                         IF new[c] # old[c] THEN new[c] ELSE tbl[module.id][c]])
        ELSE Put(tbl, module.id, new)

(***************************************************************************)
(* Settings and themes                                                     *)
(***************************************************************************)
\* get_settings: GlobalSettings built from the row with id 1
get_settings(tbl) ==
    [theme |-> tbl[1].theme, kiosk |-> tbl[1].kiosk,
     cursorTimeout |-> tbl[1].cursor_timeout, fontScale |-> tbl[1].font_scale,
     autoStart |-> tbl[1].auto_start]

\* save_settings: the five assignments; the commit updates the columns that
\* differ from the loaded ones
save_settings(tbl, loaded, s) ==
    LET new == [theme |-> s.theme, kiosk |-> s.kiosk,
                cursor_timeout |-> s.cursorTimeout, font_scale |-> s.fontScale,
                auto_start |-> s.autoStart]
    IN  OneRow(1, [c \in DOMAIN new |->
                      IF new[c] # loaded[c] THEN new[c] ELSE tbl[1][c]])

\* get_themes: every row as a Theme
get_themes(tbl) ==
    {[id |-> id, name |-> tbl[id].name, variables |-> tbl[id].variables] :
        id \in DOMAIN tbl}

\* db.query(ThemeRow).filter(ThemeRow.id == theme.id).first()
theme_row(tbl, id) == IF id \in DOMAIN tbl THEN Just(tbl[id]) ELSE Nothing

\* upsert_theme: update name and variables of the existing row (the columns
\* that differ from the loaded ones), or insert a new row
upsert_theme(tbl, loaded, theme) ==
    LET new == [name |-> theme.name, variables |-> theme.variables]
    IN  IF loaded # Nothing
        THEN LET old == CHOOSE r \in loaded : TRUE
             IN  Put(tbl, theme.id,
                     [c \in DOMAIN new |->
                         IF new[c] # old[c] THEN new[c] ELSE tbl[theme.id][c]])
        ELSE Put(tbl, theme.id, new)

(***************************************************************************)
(* Request bodies the model draws from                                     *)
(***************************************************************************)
\* grid item "w_02" without a config, config "clock_01" without a grid item
BodyOrphans ==
    LayoutProfile(
        [grid |-> <<[i |-> "w_02", x |-> 4, y |-> 0, w |-> 2, h |-> 2]>>,
         moduleConfigs |-> [clock_01 |-> [moduleId |-> "weather"]]])

BodyEmpty == LayoutProfile([grid |-> <<>>, moduleConfigs |-> <<>>])

BodyTwo ==
    LayoutProfile(
        [grid |-> <<[i |-> "clock_01", x |-> 0, y |-> 0, w |-> 4, h |-> 3],
                    [i |-> "w_02", x |-> 4, y |-> 0, w |-> 2, h |-> 2]>>,
         moduleConfigs |->
             [clock_01 |-> [moduleId |-> "clock", config |-> ShortClockConfig],
              w_02 |-> [moduleId |-> "weather", config |-> WeatherConfig]]])

Bodies == {BodyOrphans, BodyTwo}

Manifest(id, version, defaultConfig) ==
    [id |-> id, name |-> id, description |-> "", version |-> version,
     author |-> "", icon |-> None, defaultConfig |-> defaultConfig,
     configSchema |-> None, gridConstraints |-> None]

ClockV1 ==
    [id |-> "clock", name |-> "Clock", serviceUrl |-> "http://clock:3001",
     manifest |-> Manifest("clock", "1.0.0", ShortClockConfig),
     status |-> "online"]

ClockV2 ==
    [id |-> "clock", name |-> "Clock 2", serviceUrl |-> "http://clock:3002",
     manifest |-> Manifest("clock", "2.0.0", EmptyConfig),
     status |-> "degraded"]

WeatherV1 ==
    [id |-> "weather", name |-> "Weather", serviceUrl |-> "http://weather:3001",
     manifest |-> Manifest("weather", "1.0.0", WeatherConfig),
     status |-> "online"]

ModuleBodies == {ClockV1, ClockV2, WeatherV1}

\* PUT /api/config/settings: every field differs from the seeded one
KioskSettings ==
    [theme |-> "light", kiosk |-> TRUE, cursorTimeout |-> 5000,
     fontScale |-> "1.5", autoStart |-> TRUE]

SettingsBodies == {KioskSettings}

\* POST /api/config/themes: an override of a built-in theme and a new theme
DarkOverride ==
    [id |-> "dark", name |-> "My Dark",
     variables |-> ("--color-bg" :> "#101010")]

SolarTheme ==
    [id |-> "solar", name |-> "Solar",
     variables |-> ("--color-bg" :> "#fdf6e3")]

ThemeBodies == {DarkOverride, SolarTheme}

(***************************************************************************)
(* The database the service is started on: empty on a first start, or the  *)
(* tables an earlier run left behind.                                      *)
(***************************************************************************)
StoredProfiles(layouts) == [n \in DOMAIN layouts |-> model_dump(layouts[n])]

PreLayoutTables ==
    { OneRow(1, [active_profile |-> "night",
                 profiles |-> Put(_DEFAULT_LAYOUT_PROFILES, "night",
                                  model_dump(BodyOrphans))]),
      OneRow(1, [active_profile |-> "default",
                 profiles |-> StoredProfiles([default |-> BodyEmpty,
                                              x |-> BodyTwo])]) }

PreModuleTables ==
    { EmptyTable,
      register_module(EmptyTable, Nothing, ClockV2) }

NoRequest == [op |-> "none"]

NoResponse == [status |-> 0]

\* the four tables of a fresh database
FirstStart ==
    /\ layout_data = EmptyTable
    /\ modules = EmptyTable
    /\ settings = EmptyTable
    /\ themes = EmptyTable

\* the four tables after an earlier run of the service
Restart ==
    /\ layout_data \in PreLayoutTables
    /\ modules \in PreModuleTables
    /\ settings = seed_settings(EmptyTable)
    /\ themes = seed_themes(EmptyTable)

Init ==
    /\ api_key \in ServerKeys
    /\ phase = "starting"
    /\ FirstStart \/ Restart
    /\ pc = [p \in Procs |-> "idle"]
    /\ req = [p \in Procs |-> NoRequest]
    /\ sess = [p \in Procs |-> Nothing]
    /\ resp = [p \in Procs |-> NoResponse]
    /\ nreq = 0

(***************************************************************************)
(* lifespan: create_tables, then seed_defaults in one session              *)
(***************************************************************************)
lifespan ==
    /\ phase = "starting"
    /\ settings' = seed_settings(settings)
    /\ layout_data' = seed_layout(layout_data)
    /\ themes' = seed_themes(themes)
    /\ phase' = "serving"
    /\ UNCHANGED <<api_key, modules, pc, req, sess, resp, nreq>>

(***************************************************************************)
(* Request plumbing                                                        *)
(***************************************************************************)
\* a worker takes the next request
Accepts(p) ==
    /\ phase = "serving"
    /\ pc[p] \in {"idle", "done"}
    /\ nreq < MaxRequests

\* the single row of a session / of the layout_data table
Loaded(p) == CHOOSE r \in sess[p] : TRUE

LayoutRow == layout_data[1]

\* the request ends with an HTTP response
Respond(p, status, body) ==
    /\ pc' = [pc EXCEPT ![p] = "done"]
    /\ resp' = [resp EXCEPT ![p] = [status |-> status, body |-> body]]

Success == [success |-> TRUE]

Detail(text) == [detail |-> text]

(***************************************************************************)
(* dependencies.py: require_api_key, the dependency of every write route   *)
(***************************************************************************)
\* mutant: an unset server secret lets every request through
require_api_key_bypass(expected, key) ==
    IF expected = "" THEN 0
    ELSE IF key = None \/ key = "" \/ key # expected THEN 401
    ELSE 0

\* the HTTPException require_api_key raises, 0 if none
require_api_key(expected, key) ==
    IF expected = "" THEN 500
    ELSE IF key = None \/ key = "" \/ key # expected THEN 401
    ELSE 0

\* the write routes, all declared with Depends(require_api_key)
WriteOps ==
    {"update_layout", "create_profile", "delete_profile", "register_module",
     "update_instance_config", "update_settings", "upsert_theme"}

\* a write request whose key passes require_api_key reaches its handler
Authorized(key) == require_api_key(api_key, key) = 0

\* require_api_key raises: the handler of the write route is not entered
RejectWrite(p, op, key) ==
    /\ Accepts(p)
    /\ ~Authorized(key)
    /\ nreq' = nreq + 1
    /\ req' = [req EXCEPT ![p] = [op |-> op, key |-> key]]
    /\ sess' = [sess EXCEPT ![p] = Nothing]
    /\ Respond(p, require_api_key(api_key, key),
               Detail(IF api_key = "" THEN "Service not configured"
                      ELSE "Invalid or missing API key"))
    /\ UNCHANGED <<api_key, phase, store>>

(***************************************************************************)
(* routes/layout.py: POST /api/config/layout/profiles                      *)
(***************************************************************************)
\* mutant: the source is looked up before the name
create_profile_raises_source_first(profiles, name, copyFrom) ==
    IF copyFrom \notin profiles THEN 404
    ELSE IF name \in profiles THEN 409
    ELSE 0

\* the HTTPException the handler raises before db_ops.create_profile, 0 if none
create_profile_raises(profiles, name, copyFrom) ==
    IF name \in profiles THEN 409
    ELSE IF copyFrom \notin profiles THEN 404
    ELSE 0

\* the handler up to db_ops.create_profile: get_profiles and the two checks
CreateProfileCheck(p, name, copyFrom) ==
    /\ Accepts(p)
    /\ nreq' = nreq + 1
    /\ \E key \in Keys :
           /\ Authorized(key)
           /\ req' = [req EXCEPT ![p] = [op |-> "create_profile", key |-> key,
                                              name |-> name,
                                              copyFrom |-> copyFrom]]
    /\ sess' = [sess EXCEPT ![p] = Just(LayoutRow)]
    /\ LET raised == create_profile_raises(get_profiles(LayoutRow), name, copyFrom)
       IN  IF raised # 0
           THEN Respond(p, raised, Detail("profile"))
           ELSE /\ pc' = [pc EXCEPT ![p] = "create_profile"]
                /\ UNCHANGED resp
    /\ UNCHANGED <<api_key, phase, store>>

\* mutant: the save checks the name against the stored row and refuses a
\* name another request has created meanwhile
CreateProfileSave_exclusive(p) ==
    /\ pc[p] = "create_profile"
    /\ IF req[p].name \in get_profiles(LayoutRow)
       THEN /\ Respond(p, 409, Detail("profile"))
            /\ UNCHANGED layout_data
       ELSE /\ layout_data' =
                  save_layout(layout_data, Loaded(p),
                              create_profile(get_layout(Loaded(p)),
                                             req[p].name, req[p].copyFrom))
            /\ Respond(p, 201, Success)
    /\ UNCHANGED <<api_key, phase, modules, settings, themes, req, sess, nreq>>

\* db_ops.create_profile on the session's row, then 201
CreateProfileSave(p) ==
    /\ pc[p] = "create_profile"
    /\ LET layout == get_layout(Loaded(p))
       IN  IF req[p].copyFrom \notin DOMAIN layout.layouts
           THEN /\ Respond(p, 500, Detail("An internal error occurred"))
                /\ UNCHANGED layout_data
           ELSE /\ layout_data' =
                      save_layout(layout_data, Loaded(p),
                                  create_profile(layout, req[p].name, req[p].copyFrom))
                /\ Respond(p, 201, Success)
    /\ UNCHANGED <<api_key, phase, modules, settings, themes, req, sess, nreq>>

(***************************************************************************)
(* routes/layout.py: DELETE /api/config/layout/profiles/{name}             *)
(***************************************************************************)
\* mutant: the "default" guard is missing
delete_profile_unprotected(name) == FALSE

\* the guard that answers 400 before the database is read
delete_profile_protected(name) == name = "default"

\* the handler up to db_ops.delete_profile: the "default" guard, get_profiles
DeleteProfileCheck(p, name) ==
    /\ Accepts(p)
    /\ nreq' = nreq + 1
    /\ \E key \in Keys :
           /\ Authorized(key)
           /\ req' = [req EXCEPT ![p] = [op |-> "delete_profile", key |-> key,
                                              name |-> name]]
    /\ IF delete_profile_protected(name)
       THEN /\ Respond(p, 400, Detail("The 'default' profile cannot be deleted"))
            /\ sess' = [sess EXCEPT ![p] = Nothing]
       ELSE /\ sess' = [sess EXCEPT ![p] = Just(LayoutRow)]
            /\ IF name \notin get_profiles(LayoutRow)
               THEN Respond(p, 404, Detail("not found"))
               ELSE /\ pc' = [pc EXCEPT ![p] = "delete_profile"]
                    /\ UNCHANGED resp
    /\ UNCHANGED <<api_key, phase, store>>

\* mutant: db_ops.delete_profile reads the row again and sees the commits
\* of other requests
DeleteProfileSave_reread(p) ==
    /\ pc[p] = "delete_profile"
    /\ LET layout == get_layout(LayoutRow)
       IN  IF req[p].name \notin DOMAIN layout.layouts
           THEN /\ Respond(p, 500, Detail("An internal error occurred"))
                /\ UNCHANGED layout_data
           ELSE /\ layout_data' =
                      save_layout(layout_data, LayoutRow,
                                  delete_profile(layout, req[p].name))
                /\ Respond(p, 200, Success)
    /\ UNCHANGED <<api_key, phase, modules, settings, themes, req, sess, nreq>>

\* db_ops.delete_profile on the session's row, then 200
DeleteProfileSave(p) ==
    /\ pc[p] = "delete_profile"
    /\ LET layout == get_layout(Loaded(p))
       IN  IF req[p].name \notin DOMAIN layout.layouts
           THEN /\ Respond(p, 500, Detail("An internal error occurred"))
                /\ UNCHANGED layout_data
           ELSE /\ layout_data' =
                      save_layout(layout_data, Loaded(p),
                                  delete_profile(layout, req[p].name))
                /\ Respond(p, 200, Success)
    /\ UNCHANGED <<api_key, phase, modules, settings, themes, req, sess, nreq>>

(***************************************************************************)
(* routes/layout.py: PUT /api/config/layout                                *)
(***************************************************************************)
\* update_layout up to the get_layout of db_ops.upsert_profile_content
UpdateLayoutLoad(p, profileName, body) ==
    /\ Accepts(p)
    /\ nreq' = nreq + 1
    /\ \E key \in Keys :
           /\ Authorized(key)
           /\ req' = [req EXCEPT ![p] = [op |-> "update_layout", key |-> key,
                                              profileName |-> profileName, body |-> body]]
    /\ sess' = [sess EXCEPT ![p] = Just(LayoutRow)]
    /\ pc' = [pc EXCEPT ![p] = "update_layout"]
    /\ UNCHANGED <<api_key, phase, store, resp>>

\* the assignment and save_layout of upsert_profile_content, then 200
UpdateLayoutSave(p) ==
    /\ pc[p] = "update_layout"
    /\ layout_data' =
           save_layout(layout_data, Loaded(p),
                       upsert_profile_content(get_layout(Loaded(p)),
                                              req[p].profileName, req[p].body))
    /\ Respond(p, 200, Success)
    /\ UNCHANGED <<api_key, phase, modules, settings, themes, req, sess, nreq>>

(***************************************************************************)
(* routes/modules.py: GET and PUT /api/config/modules/{id}/config/{inst}   *)
(***************************************************************************)
\* get_instance_config: both reads of db_ops.get_instance_config see the
\* snapshot of the session; None becomes 404
GetInstanceConfig(p, module_id, instance_id) ==
    /\ Accepts(p)
    /\ nreq' = nreq + 1
    /\ req' = [req EXCEPT ![p] = [op |-> "get_instance_config",
                                  module_id |-> module_id,
                                  instance_id |-> instance_id]]
    /\ sess' = [sess EXCEPT ![p] = Just(LayoutRow)]
    /\ LET config == get_instance_config(LayoutRow, modules, module_id, instance_id)
       IN  IF config = Nothing
           THEN Respond(p, 404, Detail("No config found"))
           ELSE Respond(p, 200, CHOOSE c \in config : TRUE)
    /\ UNCHANGED <<api_key, phase, store>>

\* update_instance_config up to the test of db_ops.set_instance_config
UpdateInstanceConfigLoad(p, module_id, instance_id, config) ==
    /\ Accepts(p)
    /\ nreq' = nreq + 1
    /\ \E key \in Keys :
           /\ Authorized(key)
           /\ req' = [req EXCEPT ![p] = [op |-> "update_instance_config", key |-> key,
                                              module_id |-> module_id,
                                              instance_id |-> instance_id,
                                              config |-> config]]
    /\ sess' = [sess EXCEPT ![p] = Just(LayoutRow)]
    /\ IF set_instance_config_missing(get_layout(LayoutRow), instance_id)
       THEN Respond(p, 404, Detail("not found in active layout profile"))
       ELSE /\ pc' = [pc EXCEPT ![p] = "update_instance_config"]
            /\ UNCHANGED resp
    /\ UNCHANGED <<api_key, phase, store>>

\* the assignment and save_layout of set_instance_config, then 200
UpdateInstanceConfigSave(p) ==
    /\ pc[p] = "update_instance_config"
    /\ layout_data' =
           save_layout(layout_data, Loaded(p),
                       set_instance_config(get_layout(Loaded(p)),
                                           req[p].instance_id, req[p].config))
    /\ Respond(p, 200, Success)
    /\ UNCHANGED <<api_key, phase, modules, settings, themes, req, sess, nreq>>

(***************************************************************************)
(* routes/modules.py: POST /api/config/modules/register                    *)
(***************************************************************************)
\* register_module up to the query for the existing row
RegisterModuleLoad(p, module) ==
    /\ Accepts(p)
    /\ nreq' = nreq + 1
    /\ \E key \in Keys :
           /\ Authorized(key)
           /\ req' = [req EXCEPT ![p] = [op |-> "register_module", key |-> key,
                                              module |-> module]]
    /\ sess' = [sess EXCEPT ![p] = module_row(modules, module.id)]
    /\ pc' = [pc EXCEPT ![p] = "register_module"]
    /\ UNCHANGED <<api_key, phase, store, resp>>

\* mutant: the insert that fails has overwritten the row before it raises
RegisterModuleSave_overwrite(p) ==
    /\ pc[p] = "register_module"
    /\ modules' = register_module(modules, sess[p], req[p].module)
    /\ IF sess[p] = Nothing /\ req[p].module.id \in DOMAIN modules
       THEN Respond(p, 500, Detail("An internal error occurred"))
       ELSE Respond(p, 200, Success)
    /\ UNCHANGED <<api_key, phase, layout_data, settings, themes, req, sess, nreq>>

\* the update or insert and the commit; an insert of a key that another
\* request has inserted meanwhile is an IntegrityError, answered with 500
RegisterModuleSave(p) ==
    /\ pc[p] = "register_module"
    /\ IF sess[p] = Nothing /\ req[p].module.id \in DOMAIN modules
       THEN /\ Respond(p, 500, Detail("An internal error occurred"))
            /\ UNCHANGED modules
       ELSE /\ modules' = register_module(modules, sess[p], req[p].module)
            /\ Respond(p, 200, Success)
    /\ UNCHANGED <<api_key, phase, layout_data, settings, themes, req, sess, nreq>>

\* get_module: 404 when the id is not registered
GetModule(p, module_id) ==
    /\ Accepts(p)
    /\ nreq' = nreq + 1
    /\ req' = [req EXCEPT ![p] = [op |-> "get_module", module_id |-> module_id]]
    /\ sess' = [sess EXCEPT ![p] = module_row(modules, module_id)]
    /\ LET module == get_module(modules, module_id)
       IN  IF module = Nothing
           THEN Respond(p, 404, Detail("Module not found"))
           ELSE Respond(p, 200, CHOOSE m \in module : TRUE)
    /\ UNCHANGED <<api_key, phase, store>>

(***************************************************************************)
(* routes/layout.py: GET /api/config/layout and /api/config/layout/profiles *)
(***************************************************************************)
\* get_layout: the whole document
GetLayout(p) ==
    /\ Accepts(p)
    /\ nreq' = nreq + 1
    /\ req' = [req EXCEPT ![p] = [op |-> "get_layout"]]
    /\ sess' = [sess EXCEPT ![p] = Just(LayoutRow)]
    /\ Respond(p, 200, get_layout(LayoutRow))
    /\ UNCHANGED <<api_key, phase, store>>

\* list_profiles: the profile names
ListProfiles(p) ==
    /\ Accepts(p)
    /\ nreq' = nreq + 1
    /\ req' = [req EXCEPT ![p] = [op |-> "list_profiles"]]
    /\ sess' = [sess EXCEPT ![p] = Just(LayoutRow)]
    /\ Respond(p, 200, get_profiles(LayoutRow))
    /\ UNCHANGED <<api_key, phase, store>>

(***************************************************************************)
(* routes/settings.py: PUT /api/config/settings, POST /api/config/themes   *)
(***************************************************************************)
\* update_settings up to the query of db_ops.save_settings
UpdateSettingsLoad(p, body) ==
    /\ Accepts(p)
    /\ nreq' = nreq + 1
    /\ \E key \in Keys :
           /\ Authorized(key)
           /\ req' = [req EXCEPT ![p] = [op |-> "update_settings", key |-> key,
                                         body |-> body]]
    /\ sess' = [sess EXCEPT ![p] = Just(settings[1])]
    /\ pc' = [pc EXCEPT ![p] = "update_settings"]
    /\ UNCHANGED <<api_key, phase, store, resp>>

\* the assignments and the commit of save_settings, then 200
UpdateSettingsSave(p) ==
    /\ pc[p] = "update_settings"
    /\ settings' = save_settings(settings, Loaded(p), req[p].body)
    /\ Respond(p, 200, Success)
    /\ UNCHANGED <<api_key, phase, layout_data, modules, themes, req, sess, nreq>>

\* upsert_theme up to the query for the existing row
UpsertThemeLoad(p, body) ==
    /\ Accepts(p)
    /\ nreq' = nreq + 1
    /\ \E key \in Keys :
           /\ Authorized(key)
           /\ req' = [req EXCEPT ![p] = [op |-> "upsert_theme", key |-> key,
                                         body |-> body]]
    /\ sess' = [sess EXCEPT ![p] = theme_row(themes, body.id)]
    /\ pc' = [pc EXCEPT ![p] = "upsert_theme"]
    /\ UNCHANGED <<api_key, phase, store, resp>>

\* the update or insert and the commit, then 201; an insert of an id that
\* another request has inserted meanwhile is an IntegrityError, answered 500
UpsertThemeSave(p) ==
    /\ pc[p] = "upsert_theme"
    /\ IF sess[p] = Nothing /\ req[p].body.id \in DOMAIN themes
       THEN /\ Respond(p, 500, Detail("An internal error occurred"))
            /\ UNCHANGED themes
       ELSE /\ themes' = upsert_theme(themes, sess[p], req[p].body)
            /\ Respond(p, 201, Success)
    /\ UNCHANGED <<api_key, phase, layout_data, modules, settings, req, sess, nreq>>

(***************************************************************************)
(* Specification                                                           *)
(***************************************************************************)
Next ==
    \/ lifespan
    \/ \E p \in Procs, name \in ProfileNames, copyFrom \in ProfileNames :
           CreateProfileCheck(p, name, copyFrom)
    \/ \E p \in Procs : CreateProfileSave(p)
    \/ \E p \in Procs, name \in ProfileNames : DeleteProfileCheck(p, name)
    \/ \E p \in Procs : DeleteProfileSave(p)
    \/ \E p \in Procs, name \in ProfileNames, body \in Bodies :
           UpdateLayoutLoad(p, name, body)
    \/ \E p \in Procs : UpdateLayoutSave(p)
    \/ \E p \in Procs, m \in ModuleIds, i \in InstanceIds :
           GetInstanceConfig(p, m, i)
    \/ \E p \in Procs, m \in ModuleIds, i \in InstanceIds, c \in Configs :
           UpdateInstanceConfigLoad(p, m, i, c)
    \/ \E p \in Procs : UpdateInstanceConfigSave(p)
    \/ \E p \in Procs, m \in ModuleBodies : RegisterModuleLoad(p, m)
    \/ \E p \in Procs : RegisterModuleSave(p)
    \/ \E p \in Procs, m \in ModuleIds : GetModule(p, m)
    \/ \E p \in Procs : GetLayout(p)
    \/ \E p \in Procs : ListProfiles(p)

\* the layout and module routes on a database one process has started on
Spec == Init /\ [][Next]_vars

\* every write route of the service, with the settings and theme routes and
\* the requests that require_api_key turns away
WriteNext ==
    \/ lifespan
    \/ \E p \in Procs, name \in ProfileNames, copyFrom \in ProfileNames :
           CreateProfileCheck(p, name, copyFrom)
    \/ \E p \in Procs : CreateProfileSave(p)
    \/ \E p \in Procs, name \in ProfileNames : DeleteProfileCheck(p, name)
    \/ \E p \in Procs : DeleteProfileSave(p)
    \/ \E p \in Procs, name \in ProfileNames, body \in Bodies :
           UpdateLayoutLoad(p, name, body)
    \/ \E p \in Procs : UpdateLayoutSave(p)
    \/ \E p \in Procs, m \in ModuleIds, i \in InstanceIds, c \in Configs :
           UpdateInstanceConfigLoad(p, m, i, c)
    \/ \E p \in Procs : UpdateInstanceConfigSave(p)
    \/ \E p \in Procs, m \in ModuleBodies : RegisterModuleLoad(p, m)
    \/ \E p \in Procs : RegisterModuleSave(p)
    \/ \E p \in Procs, body \in SettingsBodies : UpdateSettingsLoad(p, body)
    \/ \E p \in Procs : UpdateSettingsSave(p)
    \/ \E p \in Procs, body \in ThemeBodies : UpsertThemeLoad(p, body)
    \/ \E p \in Procs : UpsertThemeSave(p)
    \/ \E p \in Procs, op \in WriteOps, key \in Keys : RejectWrite(p, op, key)

WriteSpec == Init /\ [][WriteNext]_vars

\* a database that no earlier run has written: every row is seed_defaults'
SeededInit == Init /\ FirstStart

\* the layout and module routes on a store that bootstrap has seeded
SeededSpec == SeededInit /\ [][Next]_vars

(***************************************************************************)
(* Process start, step by step: main.lifespan opens one session and        *)
(* seed_defaults counts, inserts and commits table by table.  The count is *)
(* a consistent read: the first read after a commit fixes the snapshot the *)
(* later reads of the same transaction see.  The INSERT works on the       *)
(* current table, and a primary key that exists is an IntegrityError that  *)
(* seed_defaults does not catch: lifespan raises and the process does not  *)
(* start.  Several processes start on the same database.                   *)
(***************************************************************************)
SeededTables == {"settings", "layout_data", "themes"}

\* the tables a consistent read sees
Snapshot == [settings |-> settings, layout_data |-> layout_data, themes |-> themes]

\* the snapshot of the open transaction, or a new one
Reads(p) == IF sess[p] = Nothing THEN Snapshot ELSE Loaded(p)

\* mutant: a table with one row is seeded again
table_is_empty_or_single(tbl) == Cardinality(DOMAIN tbl) <= 1

\* db.query(Row).count() == 0
table_is_empty(tbl) == Cardinality(DOMAIN tbl) = 0

\* db.add of rows, flushed by the commit: IntegrityError on an existing key
IntegrityError(tbl, rows) == DOMAIN rows \cap DOMAIN tbl # {}

\* a process starts: lifespan, create_tables, db = SessionLocal()
StartProcess(p) ==
    /\ pc[p] \in {"stopped", "failed", "idle", "done"}
    /\ pc' = [pc EXCEPT ![p] = "seed_settings"]
    /\ sess' = [sess EXCEPT ![p] = Nothing]
    /\ req' = [req EXCEPT ![p] =
                  [op |-> "lifespan", seeded |-> {},
                   found |-> {t \in SeededTables : DOMAIN Snapshot[t] # {}}]]
    /\ resp' = [resp EXCEPT ![p] = NoResponse]
    /\ UNCHANGED <<api_key, phase, store, nreq>>

\* the count of one table: on to its insert, or to the next table
SeedCount(p, insert, next) ==
    /\ sess' = [sess EXCEPT ![p] = Just(Reads(p))]
    /\ pc' = [pc EXCEPT ![p] =
                 IF table_is_empty(Reads(p)[insert]) THEN "insert_" \o insert
                 ELSE next]
    /\ phase' = IF pc'[p] = "idle" THEN "serving" ELSE phase
    /\ UNCHANGED <<api_key, store, req, resp, nreq>>

\* what the commit of an insert leaves in the process: the transaction is
\* over, or the exception has ended the start
SeedCommit(p, table, failed, next) ==
    /\ pc' = [pc EXCEPT ![p] = IF failed THEN "failed" ELSE next]
    /\ sess' = [sess EXCEPT ![p] = Nothing]
    /\ req' = [req EXCEPT ![p].seeded =
                  IF failed THEN @ ELSE @ \cup {table}]
    /\ phase' = IF ~failed /\ next = "idle" THEN "serving" ELSE phase
    /\ UNCHANGED <<api_key, modules, resp, nreq>>

SeedSettingsCount(p) ==
    /\ pc[p] = "seed_settings"
    /\ SeedCount(p, "settings", "seed_layout_data")

SeedSettingsInsert(p) ==
    /\ pc[p] = "insert_settings"
    /\ LET rows == seed_settings(EmptyTable)
           failed == IntegrityError(settings, rows)
       IN  /\ settings' = IF failed THEN settings ELSE rows @@ settings
           /\ SeedCommit(p, "settings", failed, "seed_layout_data")
    /\ UNCHANGED <<layout_data, themes>>

SeedLayoutCount(p) ==
    /\ pc[p] = "seed_layout_data"
    /\ SeedCount(p, "layout_data", "seed_themes")

SeedLayoutInsert(p) ==
    /\ pc[p] = "insert_layout_data"
    /\ LET rows == seed_layout(EmptyTable)
           failed == IntegrityError(layout_data, rows)
       IN  /\ layout_data' = IF failed THEN layout_data ELSE rows @@ layout_data
           /\ SeedCommit(p, "layout_data", failed, "seed_themes")
    /\ UNCHANGED <<settings, themes>>

\* after the themes seed_defaults returns: the process serves ("idle")
SeedThemesCount(p) ==
    /\ pc[p] = "seed_themes"
    /\ SeedCount(p, "themes", "idle")

SeedThemesInsert(p) ==
    /\ pc[p] = "insert_themes"
    /\ LET rows == seed_themes(EmptyTable)
           failed == IntegrityError(themes, rows)
       IN  /\ themes' = IF failed THEN themes ELSE rows @@ themes
           /\ SeedCommit(p, "themes", failed, "idle")
    /\ UNCHANGED <<layout_data, settings>>

\* one step of seed_defaults in process p
seed_defaults(p) ==
    \/ SeedSettingsCount(p) \/ SeedSettingsInsert(p)
    \/ SeedLayoutCount(p) \/ SeedLayoutInsert(p)
    \/ SeedThemesCount(p) \/ SeedThemesInsert(p)

BootInit ==
    /\ api_key = "secret"
    /\ phase = "starting"
    /\ FirstStart \/ Restart
    /\ pc = [p \in Procs |-> "stopped"]
    /\ req = [p \in Procs |-> NoRequest]
    /\ sess = [p \in Procs |-> Nothing]
    /\ resp = [p \in Procs |-> NoResponse]
    /\ nreq = 0

\* processes start and restart; those that have started serve the writes
\* that change what seed_defaults has seeded
BootNext ==
    \/ \E p \in Procs : StartProcess(p)
    \/ \E p \in Procs : SeedSettingsCount(p)
    \/ \E p \in Procs : SeedSettingsInsert(p)
    \/ \E p \in Procs : SeedLayoutCount(p)
    \/ \E p \in Procs : SeedLayoutInsert(p)
    \/ \E p \in Procs : SeedThemesCount(p)
    \/ \E p \in Procs : SeedThemesInsert(p)
    \/ \E p \in Procs, body \in SettingsBodies : UpdateSettingsLoad(p, body)
    \/ \E p \in Procs : UpdateSettingsSave(p)
    \/ \E p \in Procs, body \in ThemeBodies : UpsertThemeLoad(p, body)
    \/ \E p \in Procs : UpsertThemeSave(p)
    \/ \E p \in Procs, name \in ProfileNames, body \in Bodies :
           UpdateLayoutLoad(p, name, body)
    \/ \E p \in Procs : UpdateLayoutSave(p)

BootSpec == BootInit /\ [][BootNext]_vars

(***************************************************************************)
(* Properties                                                              *)
(***************************************************************************)
\* what GET /api/config/layout returns in the current state
Load == get_layout(LayoutRow)

\* worker p has finished a request of kind op with the given status
Finished(p, op, status) ==
    /\ pc[p] = "done"
    /\ req[p].op = op
    /\ resp[p].status = status

\* C1: once lifespan has run, in every state reached by any interleaving of
\* the requests, "default" is a key of the layouts of the layout document.
C1_DefaultAlwaysExists ==
    phase = "serving" => "default" \in DOMAIN Load.layouts

\* a profile has been deleted and another created, and "default" is there
C1_Witness ==
    /\ \E p \in Procs : Finished(p, "delete_profile", 200)
    /\ \E p \in Procs : Finished(p, "create_profile", 201)
    /\ "default" \in DOMAIN Load.layouts

\* C2: once lifespan has run, in every state reached by any interleaving of
\* the layout requests, activeProfile names a key of layouts of the same
\* persisted document.
C2_ActiveProfileExists ==
    phase = "serving" => Load.activeProfile \in DOMAIN Load.layouts

\* the active profile has been deleted and the document names an existing one
C2_Witness ==
    \E p \in Procs :
        /\ Finished(p, "delete_profile", 200)
        /\ Loaded(p).active_profile = req[p].name
        /\ Load.activeProfile \in DOMAIN Load.layouts

\* the active profile of the current document
ActiveProfile == Load.layouts[Load.activeProfile]

\* C3: ResolveInstanceConfig(moduleId, instanceId) answers the saved config
\* of instanceId when the active profile has one; otherwise the manifest
\* defaultConfig of moduleId when that module is registered, the empty
\* mapping included; otherwise NotFound.
C3_ResolveChain ==
    [][\A p \in Procs, m \in ModuleIds, i \in InstanceIds :
          GetInstanceConfig(p, m, i) =>
             IF i \in DOMAIN ActiveProfile.moduleConfigs
             THEN resp'[p] = [status |-> 200,
                              body |-> ActiveProfile.moduleConfigs[i].config]
             ELSE IF m \in DOMAIN modules
                  THEN resp'[p] = [status |-> 200,
                                   body |-> modules[m].manifest.defaultConfig]
                  ELSE resp'[p].status = 404]_vars

\* one lookup fell back to an empty defaultConfig and was answered with it,
\* another found neither an entry nor a registered module
C3_Witness ==
    \E p, q \in Procs :
        /\ Finished(p, "get_instance_config", 200)
        /\ req[p].instance_id \notin
               DOMAIN get_layout(Loaded(p)).layouts[Loaded(p).active_profile].moduleConfigs
        /\ resp[p].body = EmptyConfig
        /\ Finished(q, "get_instance_config", 404)
        /\ req[q].module_id \notin DOMAIN modules

\* C4: the caller's moduleId matters on the fallback path only: an entry of
\* instanceId in the active profile is returned whatever moduleId was
\* passed, and without an entry the answer is that of the passed moduleId:
\* NotFound when it is unregistered, whatever modules the profile mentions.
C4_CallerModuleIdOnFallbackOnly ==
    [][\A p \in Procs, m \in ModuleIds, i \in InstanceIds :
          GetInstanceConfig(p, m, i) =>
             /\ i \in DOMAIN ActiveProfile.moduleConfigs =>
                   /\ resp'[p].status = 200
                   /\ \A m2 \in ModuleIds :
                         get_instance_config(LayoutRow, modules, m2, i)
                             = Just(resp'[p].body)
             /\ (i \notin DOMAIN ActiveProfile.moduleConfigs /\ m \notin DOMAIN modules) =>
                   resp'[p].status = 404]_vars

\* an entry stored under another module, asked for with an unregistered
\* moduleId, was returned
C4_Witness ==
    \E p \in Procs :
        LET profile == get_layout(Loaded(p)).layouts[Loaded(p).active_profile]
        IN  /\ Finished(p, "get_instance_config", 200)
            /\ req[p].instance_id \in DOMAIN profile.moduleConfigs
            /\ profile.moduleConfigs[req[p].instance_id].moduleId # req[p].module_id
            /\ req[p].module_id \notin DOMAIN modules
            /\ resp[p].body = profile.moduleConfigs[req[p].instance_id].config

\* C5: SetInstanceConfig(instanceId, config) with instanceId not a key of
\* the active profile's moduleConfigs is answered 404 and writes nothing:
\* the document a following Load returns is the one before the call.
C5_SetMissingInstanceFails ==
    [][\A p \in Procs, m \in ModuleIds, i \in InstanceIds, c \in Configs :
          (UpdateInstanceConfigLoad(p, m, i, c)
              /\ i \notin DOMAIN ActiveProfile.moduleConfigs) =>
             /\ resp'[p].status = 404
             /\ pc'[p] = "done"
             /\ get_layout(layout_data'[1]) = Load]_vars

\* the refused instance is on the grid of the active profile and has a
\* config in a profile that is not active
C5_Witness ==
    \E p \in Procs :
        /\ Finished(p, "update_instance_config", 404)
        /\ req[p].instance_id \notin DOMAIN ActiveProfile.moduleConfigs
        /\ \E k \in DOMAIN ActiveProfile.grid :
               ActiveProfile.grid[k].i = req[p].instance_id
        /\ \E n \in DOMAIN Load.layouts \ {Load.activeProfile} :
               req[p].instance_id \in DOMAIN Load.layouts[n].moduleConfigs

\* C6: DeleteProfile("default") is answered 400 in every reachable state of
\* the document and leaves the document as it was.
C6_DeleteDefaultRefused ==
    [][\A p \in Procs :
          DeleteProfileCheck(p, "default") =>
             /\ resp'[p].status = 400
             /\ pc'[p] = "done"
             /\ layout_data' = layout_data]_vars

\* "default" was refused while it is the active profile among several
C6_Witness ==
    \E p \in Procs :
        /\ Finished(p, "delete_profile", 400)
        /\ req[p].name = "default"
        /\ Load.activeProfile = "default"
        /\ DOMAIN Load.layouts # {"default"}

\* the document after the step
LoadNext == get_layout(layout_data'[1])

\* no other request has committed a layout since worker p loaded its row
Fresh(p) == Loaded(p) = LayoutRow

\* every profile of the document except those in names is there, unchanged,
\* after the step
OthersUnchanged(names) ==
    \A n \in DOMAIN Load.layouts \ names :
        /\ n \in DOMAIN LoadNext.layouts
        /\ LoadNext.layouts[n] = Load.layouts[n]

\* C7: when DeleteProfile(name) succeeds, name is no longer a key of
\* layouts; activeProfile is "default" if name was the active profile
\* immediately before and is unchanged otherwise; and every other profile
\* is unchanged (for a request whose load and save are not separated by
\* the commit of another request, the overwrite of C13).
C7_DeleteResetsActive ==
    [][\A p \in Procs :
          (DeleteProfileSave(p) /\ resp'[p].status = 200) =>
             /\ req[p].name \notin DOMAIN LoadNext.layouts
             /\ LoadNext.activeProfile =
                    IF Load.activeProfile = req[p].name THEN "default"
                    ELSE Load.activeProfile
             /\ Fresh(p) =>
                   /\ DOMAIN LoadNext.layouts = DOMAIN Load.layouts \ {req[p].name}
                   /\ OthersUnchanged({req[p].name})]_vars

\* the active profile has been deleted: "default" is active now and the
\* remaining profiles are those the request had loaded
C7_Witness ==
    \E p \in Procs :
        /\ Finished(p, "delete_profile", 200)
        /\ Loaded(p).active_profile = req[p].name
        /\ Load.activeProfile = "default"
        /\ req[p].name \notin DOMAIN Load.layouts
        /\ Load.layouts = Del(get_layout(Loaded(p)).layouts, req[p].name)

\* C8: CreateProfile(name, copyFrom) is answered 409 when name is a key of
\* layouts, also when copyFrom is missing too, and 404 when only copyFrom
\* is missing; a refused request leaves the layout document unchanged.
C8_CreateRefusals ==
    [][\A p \in Procs, name \in ProfileNames, copyFrom \in ProfileNames :
          CreateProfileCheck(p, name, copyFrom) =>
             /\ name \in DOMAIN Load.layouts => resp'[p].status = 409
             /\ (name \notin DOMAIN Load.layouts /\ copyFrom \notin DOMAIN Load.layouts)
                   => resp'[p].status = 404
             /\ (name \in DOMAIN Load.layouts \/ copyFrom \notin DOMAIN Load.layouts)
                   => /\ pc'[p] = "done"
                      /\ layout_data' = layout_data]_vars

\* one request met both conditions and got 409, another only the missing
\* source and got 404
C8_Witness ==
    \E p, q \in Procs :
        /\ Finished(p, "create_profile", 409)
        /\ req[p].name \in DOMAIN get_layout(Loaded(p)).layouts
        /\ req[p].copyFrom \notin DOMAIN get_layout(Loaded(p)).layouts
        /\ Finished(q, "create_profile", 404)
        /\ req[q].name \notin DOMAIN get_layout(Loaded(q)).layouts
        /\ Loaded(p) = LayoutRow
        /\ Loaded(q) = LayoutRow

\* C9: a successful CreateProfile(name, copyFrom) stores under name a
\* profile equal to that of copyFrom and leaves activeProfile and every
\* other profile unchanged; and the copy is independent: a later
\* UpsertProfileContent or SetInstanceConfig leaves every profile except
\* the one it targets unchanged.  (Frames are those of a request whose load
\* and save are not separated by the commit of another request.)
C9_CreateCopies ==
    [][\A p \in Procs :
          /\ (CreateProfileSave(p) /\ resp'[p].status = 201) =>
                /\ req[p].name \in DOMAIN LoadNext.layouts
                /\ LoadNext.layouts[req[p].name] = LoadNext.layouts[req[p].copyFrom]
                /\ Fresh(p) =>
                      /\ LoadNext.layouts[req[p].name] = Load.layouts[req[p].copyFrom]
                      /\ LoadNext.activeProfile = Load.activeProfile
                      /\ DOMAIN LoadNext.layouts = DOMAIN Load.layouts \cup {req[p].name}
                      /\ OthersUnchanged({req[p].name})
          /\ (UpdateLayoutSave(p) /\ Fresh(p)) =>
                OthersUnchanged({req[p].profileName})
          /\ (UpdateInstanceConfigSave(p) /\ Fresh(p)) =>
                OthersUnchanged({Load.activeProfile})]_vars

\* a profile was copied from another than "default"; a later request
\* changed the source and the copy still is what was copied
C9_Witness ==
    \E p, q \in Procs :
        /\ Finished(p, "create_profile", 201)
        /\ req[p].copyFrom # "default"
        /\ resp[q].status = 200
        /\ req[q].op \in {"update_layout", "update_instance_config"}
        /\ {req[p].name, req[p].copyFrom} \subseteq DOMAIN Load.layouts
        /\ Load.layouts[req[p].name]
               = get_layout(Loaded(p)).layouts[req[p].copyFrom]
        /\ Load.layouts[req[p].copyFrom] # Load.layouts[req[p].name]

\* the layout row create_profile(name, copy_from) writes for a loaded row
Created(row, name, copy_from) ==
    save_layout(OneRow(1, row), row,
                create_profile(get_layout(row), name, copy_from))[1]

\* C10: CreateProfile("x", "default") on a document without "x", followed
\* by DeleteProfile("x") with no other request in between, yields a
\* document whose profile names, profile contents and activeProfile are
\* those before the creation.
C10_CreateDeleteRestores ==
    [][\A p, q \in Procs :
          (/\ DeleteProfileSave(p)
           /\ resp'[p].status = 200
           /\ req[p].name = "x"
           /\ Fresh(p)
           /\ Finished(q, "create_profile", 201)
           /\ req[q].name = "x"
           /\ req[q].copyFrom = "default"
           /\ LayoutRow = Created(Loaded(q), "x", "default"))
          => LoadNext = get_layout(Loaded(q))]_vars

\* "x" was created from "default" while another profile was active, then
\* deleted, and the document is the one before the creation
C10_Witness ==
    \E p, q \in Procs :
        /\ Finished(p, "delete_profile", 200)
        /\ req[p].name = "x"
        /\ Finished(q, "create_profile", 201)
        /\ req[q].name = "x"
        /\ req[q].copyFrom = "default"
        /\ Loaded(p) = Created(Loaded(q), "x", "default")
        /\ Loaded(q).active_profile # "default"
        /\ Load = get_layout(Loaded(q))

(***************************************************************************)
(* Bootstrap (BootSpec)                                                    *)
(***************************************************************************)
BuiltinThemeIds == {_BUILTIN_THEMES[k].id : k \in DOMAIN _BUILTIN_THEMES}

\* process p has run seed_defaults to its end and has not served since
Started(p) == pc[p] = "idle" /\ req[p].op = "lifespan"

\* C11: a seed_defaults run of a process that started on a database holding
\* a settings row, a layout row and themes changes no table and does not
\* fail; and whenever a run returns there is one settings row, one layout
\* row and every built-in theme id, whatever was written between the runs.
C11_BootstrapIdempotent ==
    [][\A p \in Procs :
          seed_defaults(p) =>
              /\ req[p].found = SeededTables =>
                     store' = store /\ pc'[p] # "failed"
              /\ pc'[p] = "idle" =>
                     /\ Cardinality(DOMAIN settings') = 1
                     /\ Cardinality(DOMAIN layout_data') = 1
                     /\ BuiltinThemeIds \subseteq DOMAIN themes']_vars

\* a process has started on a database whose settings, "dark" theme and
\* layout had been changed, and they are as they were changed
C11_Witness ==
    \E p \in Procs :
        /\ Started(p)
        /\ req[p].found = SeededTables
        /\ req[p].seeded = {}
        /\ get_settings(settings) = KioskSettings
        /\ DarkOverride \in get_themes(themes)
        /\ LayoutRow # DefaultLayoutRow

\* C12: when two processes start on the empty database, in every interleaving
\* of their count, insert and commit steps neither seed_defaults run fails,
\* and once both have returned there is one settings row, one layout row
\* and one row for each built-in theme.
C12_ConcurrentBootstrapSafe ==
    (\A p \in Procs : req[p].op = "lifespan" /\ req[p].found = {}) =>
        /\ \A p \in Procs : pc[p] # "failed"
        /\ (\A p \in Procs : Started(p)) =>
               /\ Cardinality(DOMAIN settings) = 1
               /\ Cardinality(DOMAIN layout_data) = 1
               /\ DOMAIN themes = BuiltinThemeIds

\* C15: a seed_defaults run that has failed has committed none of the tables
\* it set out to seed.
C15_NoPartialSeeding ==
    \A p \in Procs : pc[p] = "failed" => req[p].seeded = {}

(***************************************************************************)
(* Concurrent layout writes (Spec)                                         *)
(***************************************************************************)
\* the commit step of one of the four layout mutations
LayoutSave(p) ==
    \/ CreateProfileSave(p) \/ DeleteProfileSave(p)
    \/ UpdateLayoutSave(p) \/ UpdateInstanceConfigSave(p)

\* the document the request of p holds in memory when it calls save_layout
Mutated(p) ==
    LET layout == get_layout(Loaded(p))
    IN  CASE pc[p] = "create_profile" ->
                 create_profile(layout, req[p].name, req[p].copyFrom)
          [] pc[p] = "delete_profile" -> delete_profile(layout, req[p].name)
          [] pc[p] = "update_layout" ->
                 upsert_profile_content(layout, req[p].profileName, req[p].body)
          [] pc[p] = "update_instance_config" ->
                 set_instance_config(layout, req[p].instance_id, req[p].config)

Taken(p) ==
    /\ Accepts(p)
    /\ nreq' = nreq + 1
    /\ \A q \in Procs \ {p} :
           pc'[q] = pc[q] /\ req'[q] = req[q] /\ resp'[q] = resp[q]

\* the step in which the request of worker p is answered
Responds(p) == pc'[p] = "done" /\ (pc[p] # "done" \/ Taken(p))

Failures == {400, 401, 404, 409, 500}

\* C14: the step that answers a write request with 400, 401, 404, 409 or 500
\* changes none of the four tables, and no step of a request that is not
\* answered in that step changes one: a table changes only in the step
\* that answers 200 or 201.
C14_FailureLeavesStore ==
    [][/\ \A p \in Procs :
             Responds(p) /\ resp'[p].status \in Failures => store' = store
       /\ phase = "serving" /\ store' # store =>
             \E p \in Procs : Responds(p) /\ resp'[p].status \in {200, 201}]_vars

\* two registrations of one new module id overlapped: one was answered 500
\* (the insert of an existing key) and the row is the other one's
C14_Witness ==
    \E p, q \in Procs :
        /\ Finished(p, "register_module", 500)
        /\ Finished(q, "register_module", 200)
        /\ req[p].module # req[q].module
        /\ get_module(modules, req[p].module.id) = Just(req[q].module)

\* C16: a table changes only in a step of a write request whose key equals
\* the server secret, and the secret is not empty; a write request taken
\* while the secret is empty is answered 500 whatever its key, one taken
\* with no key or a key that differs from the secret is answered 401, and
\* neither changes a table.
C16_WritesNeedTheSecret ==
    [][/\ phase = "serving" /\ store' # store =>
             /\ api_key # ""
             /\ \E p \in Procs :
                    /\ pc'[p] # pc[p]
                    /\ req[p].op \in WriteOps
                    /\ req[p].key = api_key
       /\ \A p \in Procs :
             Taken(p) /\ req'[p].op \in WriteOps =>
                 IF api_key = ""
                 THEN Responds(p) /\ resp'[p].status = 500 /\ store' = store
                 ELSE req'[p].key # api_key =>
                        Responds(p) /\ resp'[p].status = 401 /\ store' = store]_vars

\* with the secret set, a theme upsert with another key has been answered
\* 401 and one with the secret has stored its theme
C16_Witness ==
    \E p, q \in Procs :
        /\ api_key = "secret"
        /\ Finished(p, "upsert_theme", 401)
        /\ req[p].key = "wrong"
        /\ Finished(q, "upsert_theme", 201)
        /\ req[q].key = api_key
        /\ req[q].body \in get_themes(themes)

(***************************************************************************)
(* Orphaned grid items and config entries (Spec)                           *)
(***************************************************************************)
\* a grid item without a config entry, or a config entry without a grid item
Orphaned(profile) ==
    {profile.grid[k].i : k \in DOMAIN profile.grid} # DOMAIN profile.moduleConfigs

HasOrphans(layout) == \E n \in DOMAIN layout.layouts : Orphaned(layout.layouts[n])

LayoutOps ==
    {"get_layout", "list_profiles", "create_profile", "delete_profile",
     "update_layout", "get_instance_config", "update_instance_config"}

\* C17: PUT layout of any grid and moduleConfigs is answered 200 and, when no
\* other request has committed since it loaded, the stored profile is the
\* body as given; and no layout or instance-config request that has loaded
\* a document with an orphan is answered 500.
C17_OrphansTolerated ==
    [][\A p \in Procs :
          /\ UpdateLayoutSave(p) =>
                 /\ resp'[p].status = 200
                 /\ Fresh(p) => /\ req[p].profileName \in DOMAIN LoadNext.layouts
                                /\ LoadNext.layouts[req[p].profileName] = req[p].body
          /\ /\ Responds(p)
             /\ req'[p].op \in LayoutOps
             /\ sess'[p] # Nothing
             /\ HasOrphans(get_layout(CHOOSE r \in sess'[p] : TRUE))
             => resp'[p].status \in {200, 201, 404, 409}]_vars

\* a profile with a grid item without config and a config without grid item
\* has been stored, and a profile copied from it holds the same content
C17_Witness ==
    \E p, q \in Procs :
        /\ Finished(q, "update_layout", 200)
        /\ Orphaned(req[q].body)
        /\ Finished(p, "create_profile", 201)
        /\ req[p].copyFrom = req[q].profileName
        /\ {req[p].name, req[p].copyFrom} \subseteq DOMAIN Load.layouts
        /\ Load.layouts[req[p].copyFrom] = req[q].body
        /\ Load.layouts[req[p].name] = req[q].body

(***************************************************************************)
(* Module registry (Spec)                                                  *)
(***************************************************************************)
\* C18: a registration that commits on the row it has loaded (no other
\* registration of the id has committed in between) is answered 200; then
\* get_module of its id returns exactly the module of the request, the
\* registry holds one module with that id, and the rows of the other ids
\* are what they were.
C18_RegisterReplaces ==
    [][\A p \in Procs :
          /\ RegisterModuleSave(p)
          /\ sess[p] = module_row(modules, req[p].module.id)
          => /\ resp'[p].status = 200
             /\ get_module(modules', req[p].module.id) = Just(req[p].module)
             /\ Cardinality({m \in get_modules(modules') :
                                m.id = req[p].module.id}) = 1
             /\ DOMAIN modules' = DOMAIN modules \cup {req[p].module.id}
             /\ \A id \in DOMAIN modules \ {req[p].module.id} :
                    modules'[id] = modules[id]]_vars

\* a module has been registered over a row of its id that differed from it
\* in name, service URL, manifest and status, next to a row of another id
C18_Witness ==
    \E p \in Procs :
        /\ Finished(p, "register_module", 200)
        /\ sess[p] # Nothing
        /\ Loaded(p).name # req[p].module.name
        /\ Loaded(p).service_url # req[p].module.serviceUrl
        /\ Loaded(p).manifest # manifest_dump(req[p].module.manifest)
        /\ Loaded(p).status # req[p].module.status
        /\ get_module(modules, req[p].module.id) = Just(req[p].module)
        /\ DOMAIN modules # {req[p].module.id}

\* C19: no step of the service removes a module: an id that get_module
\* finds is found after every step, so the set of registered ids only grows.
C19_ModulesNeverRemoved ==
    [][\A id \in ModuleIds :
          get_module(modules, id) # Nothing => get_module(modules', id) # Nothing]_vars

\* GET of a module was answered 200, another module has been registered
\* since, and both are in the registry
C19_Witness ==
    \E p, q \in Procs :
        /\ Finished(p, "get_module", 200)
        /\ Finished(q, "register_module", 200)
        /\ req[q].module.id # req[p].module_id
        /\ sess[q] = Nothing
        /\ get_module(modules, req[p].module_id) = Just(resp[p].body)
        /\ get_module(modules, req[q].module.id) = Just(req[q].module)

(***************************************************************************)
(* Round trip of the layout document (Spec)                                *)
(***************************************************************************)
\* get_layout, then save_layout of the value it returned, in one session
SaveLoad(tbl) == save_layout(tbl, tbl[1], get_layout(tbl[1]))

\* C20: for the layout row that lifespan or a commit leaves behind,
\* get_layout of the row that save_layout writes for the unmodified result
\* of get_layout returns the same document (activeProfile, profile names,
\* grid and moduleConfigs of each profile); and a layout mutation that
\* leaves the document it loaded as it was and saves it leaves what
\* get_layout returns unchanged.
C20_SaveLoadNoOp ==
    [][/\ phase' = "serving" /\ (phase' # phase \/ layout_data' # layout_data) =>
             get_layout(SaveLoad(layout_data')[1]) = LoadNext
       /\ \A p \in Procs :
             LayoutSave(p) /\ Fresh(p) /\ Mutated(p) = get_layout(Loaded(p))
                 => LoadNext = Load]_vars

\* a request has saved the document it loaded without changing it: the row
\* was rewritten (the seeded JSON lacks the fields model_dump adds) and
\* get_layout returns what it returned before
C20_Witness ==
    \E p \in Procs :
        /\ Finished(p, "update_instance_config", 200)
        /\ set_instance_config(get_layout(Loaded(p)), req[p].instance_id,
                               req[p].config) = get_layout(Loaded(p))
        /\ LayoutRow # Loaded(p)
        /\ LayoutRow = SaveLoad(OneRow(1, Loaded(p)))[1]
        /\ Load = get_layout(Loaded(p))

(***************************************************************************)
(* Frames of the instance-config and profile-content writes (Spec)         *)
(***************************************************************************)
\* C21: a successful SetInstanceConfig(instanceId, config) (one whose load
\* and save are not separated by the commit of another request) changes
\* only the config field of the active profile's moduleConfigs[instanceId]:
\* the moduleId of that entry, the keys of moduleConfigs, the other
\* entries, the grid, every other profile and activeProfile are unchanged,
\* whatever moduleId the request path carries; and right after it
\* get_instance_config(m, instanceId) is the new config for every m.
C21_SetConfigFrame ==
    [][\A p \in Procs :
          UpdateInstanceConfigSave(p) /\ Fresh(p) =>
              LET a == Load.activeProfile
                  i == req[p].instance_id
                  before == Load.layouts[a]
                  after == LoadNext.layouts[a]
              IN  /\ resp'[p].status = 200
                  /\ LoadNext.activeProfile = a
                  /\ DOMAIN LoadNext.layouts = DOMAIN Load.layouts
                  /\ OthersUnchanged({a})
                  /\ after.grid = before.grid
                  /\ DOMAIN after.moduleConfigs = DOMAIN before.moduleConfigs
                  /\ \A j \in DOMAIN before.moduleConfigs \ {i} :
                         after.moduleConfigs[j] = before.moduleConfigs[j]
                  /\ after.moduleConfigs[i] =
                         [moduleId |-> before.moduleConfigs[i].moduleId,
                          config |-> req[p].config]
                  /\ \A m \in ModuleIds :
                         get_instance_config(layout_data'[1], modules', m, i)
                             = Just(req[p].config)]_vars

\* a config has been set through the path of a module that is neither the
\* one the entry is stored under nor registered, another profile holds the
\* same instance id, and the document differs from the loaded one in that
\* config only
C21_Witness ==
    \E p \in Procs :
        LET L == get_layout(Loaded(p))
            a == L.activeProfile
            i == req[p].instance_id
        IN  /\ Finished(p, "update_instance_config", 200)
            /\ L.layouts[a].moduleConfigs[i].moduleId # req[p].module_id
            /\ req[p].module_id \notin DOMAIN modules
            /\ L.layouts[a].moduleConfigs[i].config # req[p].config
            /\ \E n \in DOMAIN L.layouts \ {a} :
                   i \in DOMAIN L.layouts[n].moduleConfigs
            /\ Load = set_instance_config(L, i, req[p].config)
            /\ Load # L

\* C22: the document upsert_profile_content(name, profile) hands to
\* save_layout differs from the document it loaded only in layouts[name],
\* which is the given profile whether name was there or not; the save
\* leaves the stored activeProfile as it is and, when it writes the layouts,
\* stores exactly that mapping; so a request whose load and save are not
\* separated by the commit of another request leaves a document that
\* differs from the loaded one in layouts[name] only.
C22_UpsertTouchesOneProfile ==
    [][\A p \in Procs :
          UpdateLayoutSave(p) =>
              LET L == get_layout(Loaded(p))
                  M == Mutated(p)
                  name == req[p].profileName
              IN  /\ M.activeProfile = L.activeProfile
                  /\ DOMAIN M.layouts = DOMAIN L.layouts \cup {name}
                  /\ M.layouts[name] = req[p].body
                  /\ \A n \in DOMAIN L.layouts \ {name} :
                         M.layouts[n] = L.layouts[n]
                  /\ LoadNext.activeProfile = Load.activeProfile
                  /\ M.layouts # L.layouts => LoadNext.layouts = M.layouts
                  /\ Fresh(p) =>
                         /\ LoadNext = M
                         /\ DOMAIN LoadNext.layouts = DOMAIN Load.layouts \cup {name}
                         /\ OthersUnchanged({name})]_vars

\* one request has created a profile that was absent, a later one has
\* replaced a profile whose stored grid and moduleConfigs differed from its
\* body, next to other profiles, and the document is the loaded one with
\* that one profile replaced
C22_Witness ==
    \E p, q \in Procs :
        LET L == get_layout(Loaded(p))
        IN  /\ Finished(q, "update_layout", 200)
            /\ req[q].profileName \notin get_profiles(Loaded(q))
            /\ Finished(p, "update_layout", 200)
            /\ req[p].profileName \in DOMAIN L.layouts
            /\ L.layouts[req[p].profileName] # req[p].body
            /\ L.activeProfile # req[p].profileName
            /\ Cardinality(DOMAIN L.layouts) > 2
            /\ Load = [L EXCEPT !.layouts[req[p].profileName] = req[p].body]

(***************************************************************************)
(* Races of profile requests (Spec)                                        *)
(***************************************************************************)
\* the outcomes of POST and DELETE profiles: 201 or 200, Conflict, NotFound
\* and InvalidArgument
ProfileOutcomes ==
    [create_profile |-> {201, 409, 404}, delete_profile |-> {200, 404, 400}]

\* C23: in every interleaving of the requests, a create_profile request
\* that has reached the copy finds copyFrom in the document the copy works
\* on, a delete_profile request that has reached the removal finds name in
\* the document the removal works on, and every answered create_profile or
\* delete_profile request has one of its documented outcomes, never 500.
C23_ProfileRequestsNeverInternal ==
    \A p \in Procs :
        /\ pc[p] = "create_profile" =>
               req[p].copyFrom \in DOMAIN get_layout(Loaded(p)).layouts
        /\ pc[p] = "delete_profile" =>
               req[p].name \in DOMAIN get_layout(Loaded(p)).layouts
        /\ (pc[p] = "done" /\ req[p].op \in DOMAIN ProfileOutcomes) =>
               resp[p].status \in ProfileOutcomes[req[p].op]

\* a delete of x and a create that copies x loaded the same row; the delete
\* committed first, the create copied x from the document it had loaded,
\* and both succeeded
C23_Witness ==
    \E p, q \in Procs :
        /\ Finished(p, "delete_profile", 200)
        /\ Finished(q, "create_profile", 201)
        /\ req[q].copyFrom = req[p].name
        /\ Loaded(p) = Loaded(q)
        /\ req[q].name \in DOMAIN Load.layouts
        /\ Load.layouts[req[q].name] = get_layout(Loaded(q)).layouts[req[q].copyFrom]

\* worker p has finished a create_profile request for a name that the
\* document it loaded did not hold
CreatedNew(p) ==
    /\ pc[p] = "done"
    /\ req[p].op = "create_profile"
    /\ req[p].name \notin get_profiles(Loaded(p))

\* C24 as stated: of two create_profile requests for the same new name at
\* most one reports success.
C24_CreateExclusive ==
    \A p, q \in Procs :
        (p # q /\ CreatedNew(p) /\ CreatedNew(q) /\ req[p].name = req[q].name)
            => ~(resp[p].status = 201 /\ resp[q].status = 201)

\* C24, amended: create_profile reports Conflict exactly when the name is
\* in the document the request itself has loaded; a request that has
\* passed its checks succeeds whatever has been committed since, and the
\* profile stored under the name is then its copy of the source it loaded,
\* also when another create_profile had stored a profile under that name.
C24_CreateChecksLoadedDocument ==
    [][\A p \in Procs :
          /\ \A name \in ProfileNames, copyFrom \in ProfileNames :
                 CreateProfileCheck(p, name, copyFrom) =>
                     (name \in DOMAIN Load.layouts
                         <=> (pc'[p] = "done" /\ resp'[p].status = 409))
          /\ CreateProfileSave(p) =>
                 /\ resp'[p].status = 201
                 /\ req[p].name \in DOMAIN LoadNext.layouts
                 /\ LoadNext.layouts[req[p].name] =
                        get_layout(Loaded(p)).layouts[req[p].copyFrom]]_vars

\* two create_profile requests for one new name with different sources
\* loaded the same row and both were answered 201; the stored profile is
\* the copy of one and differs from the copy of the other
C24_Witness ==
    \E p, q \in Procs :
        LET L == get_layout(Loaded(p))
        IN  /\ p # q
            /\ CreatedNew(p) /\ CreatedNew(q)
            /\ resp[p].status = 201 /\ resp[q].status = 201
            /\ req[p].name = req[q].name
            /\ Loaded(p) = Loaded(q)
            /\ L.layouts[req[p].copyFrom] # L.layouts[req[q].copyFrom]
            /\ req[q].name \in DOMAIN Load.layouts
            /\ Load.layouts[req[q].name] = L.layouts[req[q].copyFrom]

(***************************************************************************)
(* The active profile of a bootstrap-seeded store (SeededSpec)             *)
(***************************************************************************)
InstanceConfigOps == {"get_instance_config", "update_instance_config"}

\* C25: in every state reached from a store that seed_defaults has seeded,
\* through any interleaving of the layout and module requests, activeProfile
\* is "default", and the document a get_instance_config or
\* update_instance_config request has loaded has "default" as its active
\* profile.
C25_ActiveProfileIsDefault ==
    /\ phase = "serving" => Load.activeProfile = "default"
    /\ \A p \in Procs :
           (req[p].op \in InstanceConfigOps /\ sess[p] # Nothing) =>
               Loaded(p).active_profile = "default"

\* a profile "night" has been stored next to "default" and a config has
\* been set since: it went into "default", which is still the active one
C25_Witness ==
    \E p, q \in Procs :
        /\ Finished(q, "update_layout", 200)
        /\ req[q].profileName = "night"
        /\ Finished(p, "update_instance_config", 200)
        /\ "night" \in get_profiles(Loaded(p))
        /\ req[p].instance_id \in DOMAIN Loaded(p).profiles["night"].moduleConfigs
        /\ Load.activeProfile = "default"
        /\ Load.layouts["default"].moduleConfigs[req[p].instance_id].config
               = req[p].config
        /\ Load.layouts["night"] = req[q].body
====
